---------------------------- MODULE Spec2Model ----------------------------
(***************************************************************************)
(* Model of src/src/pages/OrderSummary.tsx: the OrderSummary view, its     *)
(* React state, the handlers handleConfirmOrder / handleDeleteOrder, the   *)
(* loaders loadOrders / loadTopTapas and the pure function calculateTotal. *)
(*                                                                         *)
(* JavaScript runs one continuation at a time: the code of an async        *)
(* function between two awaits is one atomic step.  Every backend call is  *)
(* a request that the backend serves at some later moment (Backend*        *)
(* actions: the moment the reply's content is fixed) and whose reply is    *)
(* delivered to the awaiting continuation at a still later moment          *)
(* (the Settled actions).  The view stays mounted: the timer of line 83 is *)
(* counted when it is set (navScheduled), its firing is not modelled.      *)
(***************************************************************************)
EXTENDS Integers, Sequences, FiniteSets, TLC

VARIABLES
    customer,          \* useStore().customer: a customer id or NULL
    orderItems,        \* useStore().orderItems: the cart's items
    isSaving,          \* useState(false)
    savedSuccessfully, \* useState(false)
    error,             \* useState<string | null>(null)
    allOrders,         \* useState<OrderWithCustomer[]>([])
    isLoading,         \* useState(true)
    isDeletingOrder,   \* useState<string | null>(null)
    topTapas,          \* useState<[string, number][]>([])
    db,                \* the backend's persisted orders
    nextId,            \* the backend's next order number
    runs,              \* every started run of a loader or handler, in start order
    navScheduled,      \* number of setTimeout(() => navigate('/'), 2000) calls made
    topFrom,           \* ids of the orders the shown topTapas was computed from
    directCalls,       \* number of handler invocations made outside the rendered controls
    items,             \* calculateTotal: the argument
    computed,          \* calculateTotal: whether the call has returned
    total              \* calculateTotal: the value returned

vars == <<customer, orderItems, isSaving, savedSuccessfully, error, allOrders,
          isLoading, isDeletingOrder, topTapas, db, nextId, runs, navScheduled,
          topFrom, directCalls, items, computed, total>>

viewVars == <<customer, orderItems, isSaving, savedSuccessfully, error, allOrders,
              isLoading, isDeletingOrder, topTapas, db, nextId, runs, navScheduled,
              topFrom, directCalls>>

totalVars == <<items, computed, total>>

-----------------------------------------------------------------------------
(* Bounds *)

MaxConfirmClicks == 2
MaxDeleteClicks == 1
\* Delete clicks in the history-only specification SpecD.
MaxHistoryDeleteClicks == 3
MaxDirectCalls == 1
MaxItems == 2

-----------------------------------------------------------------------------
(* Values *)

NULL == "null"

LoadErr == "Error al cargar los pedidos"

DeleteErr == "Error al eliminar el pedido"

SaveErr == "Error al guardar el pedido. Por favor, inténtalo de nuevo."

ExcludedCategory == "tapas"

Item(n, c, p, q) == [name |-> n, category |-> c, price |-> p, quantity |-> q]

OrderId(n) == "o" \o ToString(n)

Order(n, c, its) == [id |-> OrderId(n), customer |-> c, items |-> its]

\* The orders persisted before the view is mounted.
InitialOrders ==
    << Order(1, "c2", << Item("A", "tapas", 1, 2), Item("Coke", "drinks", 2, 2) >>) >>

\* The cart the user brings to the view.
CartItems == << Item("B", "tapas", 1, 1), Item("Coke", "drinks", 2, 1) >>

Ids(orders) == { orders[k].id : k \in DOMAIN orders }

-----------------------------------------------------------------------------
(* calculateTotal *)

\* The reducer callback of calculateTotal.
ReducerCountsAll(acc, item) == acc + item.price * item.quantity

Reducer(acc, item) ==
    IF item.category # ExcludedCategory
    THEN acc + item.price * item.quantity
    ELSE acc

RECURSIVE Reduce(_, _)
Reduce(its, acc) ==
    IF its = << >> THEN acc ELSE Reduce(Tail(its), Reducer(acc, Head(its)))

calculateTotal(its) == Reduce(its, 0)

\* The arguments calculateTotal is applied to.
Categories == {"tapas", "Tapas", "drinks"}

Prices == {0, 2}

Quantities == {1, 3}

ItemValues ==
    { Item("x", c, p, q) : c \in Categories, p \in Prices, q \in Quantities }

ItemSeqs == UNION { [1..n -> ItemValues] : n \in 0..MaxItems }

InitTotal ==
    /\ items \in ItemSeqs
    /\ computed = FALSE
    /\ total = 0
    /\ customer = NULL /\ orderItems = << >> /\ isSaving = FALSE
    /\ savedSuccessfully = FALSE /\ error = NULL /\ allOrders = << >>
    /\ isLoading = TRUE /\ isDeletingOrder = NULL /\ topTapas = << >>
    /\ db = << >> /\ nextId = 1 /\ runs = {} /\ navScheduled = 0
    /\ topFrom = {} /\ directCalls = 0

\* A render evaluates calculateTotal(order.items).
CallCalculateTotal ==
    /\ ~computed
    /\ total' = calculateTotal(items)
    /\ computed' = TRUE
    /\ UNCHANGED items

-----------------------------------------------------------------------------
(* The backend (../lib/supabase) *)

RECURSIVE SumQuantity(_, _)
SumQuantity(its, n) ==
    IF its = << >> THEN 0
    ELSE (IF Head(its).name = n THEN Head(its).quantity ELSE 0)
         + SumQuantity(Tail(its), n)

RECURSIVE AllItems(_)
AllItems(orders) ==
    IF orders = << >> THEN << >> ELSE Head(orders).items \o AllItems(Tail(orders))

RECURSIVE Ranked(_, _)
Ranked(its, names) ==
    IF names = {} THEN << >>
    ELSE LET best == CHOOSE n \in names :
                        \A m \in names : SumQuantity(its, n) >= SumQuantity(its, m)
         IN  << <<best, SumQuantity(its, best)>> >> \o Ranked(its, names \ {best})

\* getTopTapas(): (name, cumulative quantity) pairs, descending by quantity.
TopTapasOf(orders) ==
    LET its == AllItems(orders)
    IN  Ranked(its, { its[k].name : k \in DOMAIN its })

-----------------------------------------------------------------------------
(* Runs of the loaders and handlers *)

\* A run is one started call of a mount loader or of a handler; n numbers the runs
\* of a kind in start order.  A run awaits at most one backend call at a time: pc
\* names the call (or "done"), resp is "pending" until the backend has served it,
\* then "ok", "okNull" or "err"; data is the reply, from the ids of the orders a
\* top-items reply was computed from.  customer and items are the values the
\* closure of handleConfirmOrder captured, orderId is the argument of
\* handleDeleteOrder.  trace lists what a run in flight has done so far; a finished
\* run keeps only its outcome.
NewRun(kind, n, pc, orderId, cust, its, trace) ==
    [kind |-> kind, n |-> n, pc |-> pc, resp |-> "pending", data |-> << >>,
     from |-> {}, orderId |-> orderId, customer |-> cust, items |-> its,
     trace |-> trace, outcome |-> "running"]

Has(trace, event) == \E k \in DOMAIN trace : trace[k] = event

Outcome(trace) ==
    IF Has(trace, "noCustomer") THEN "noCustomer"
    ELSE IF Has(trace, "saveErr") THEN "saveFailed"
    ELSE IF Has(trace, "deleteErr") THEN "deleteFailed"
    ELSE IF Has(trace, "ordersErr") /\ Has(trace, "topErr") THEN "reloadsFailed"
    ELSE IF Has(trace, "ordersErr") THEN "ordersFailed"
    ELSE IF Has(trace, "topErr") THEN "topFailed"
    ELSE "ok"

Await(r, pc, events) ==
    [r EXCEPT !.pc = pc, !.resp = "pending", !.data = << >>, !.from = {},
              !.trace = r.trace \o events]

Finish(r, events) ==
    [r EXCEPT !.pc = "done", !.resp = "pending", !.data = << >>, !.from = {},
              !.trace = << >>, !.outcome = Outcome(r.trace \o events)]

Pending(r, call) == r.pc = call /\ r.resp = "pending"

Replied(r, call) == r.pc = call /\ r.resp # "pending"

Started(kind) == { r \in runs : r.kind = kind }

InFlight(kind) == { r \in runs : r.kind = kind /\ r.pc # "done" }

Outstanding(call) == { r \in runs : r.pc = call }

Replace(r, q) == runs' = (runs \ {r}) \cup {q}

Start(q) == runs' = runs \cup {q}

\* The state after the first render and its effect (useEffect, lines 42-45): both
\* loaders have run up to their await.
\* A stored history of two orders.
TwoOrders ==
    InitialOrders \o << Order(2, "c1", << Item("B", "tapas", 1, 1) >>) >>

Init ==
    /\ customer \in {NULL, "c1"}
    /\ orderItems \in {<< >>, CartItems}
    /\ isSaving = FALSE
    /\ savedSuccessfully = FALSE
    /\ error = NULL
    /\ allOrders = << >>
    /\ isLoading = TRUE
    /\ isDeletingOrder = NULL
    /\ topTapas = << >>
    /\ db \in {<< >>, InitialOrders}
    /\ nextId = Len(InitialOrders) + 1
    /\ runs = { NewRun("mountOrders", 1, "getAllOrders", NULL, NULL, << >>, << >>),
                NewRun("mountTop", 1, "getTopTapas", NULL, NULL, << >>, << >>) }
    /\ navScheduled = 0
    /\ topFrom = {}
    /\ directCalls = 0
    /\ items = << >>
    /\ computed = TRUE
    /\ total = 0

-----------------------------------------------------------------------------
(* The backend serves a request: the content of the reply is fixed here *)

Reply(r, resp, data, from) ==
    Replace(r, [r EXCEPT !.resp = resp, !.data = data, !.from = from])

\* saveOrder(customerId, items): creates the order, or fails and writes nothing.
BackendSaveOrder(r) ==
    /\ Pending(r, "saveOrder")
    /\ \/ /\ db' = Append(db, Order(nextId, r.customer, r.items))
          /\ nextId' = nextId + 1
          /\ Reply(r, "ok", << >>, {})
       \/ /\ UNCHANGED <<db, nextId>>
          /\ Reply(r, "err", << >>, {})
    /\ UNCHANGED <<customer, orderItems, isSaving, savedSuccessfully, error, allOrders,
                   isLoading, isDeletingOrder, topTapas, navScheduled, topFrom,
                   directCalls, totalVars>>

\* deleteOrder(orderId): removes the order (nothing to remove if it is already
\* absent), or fails and removes nothing.
BackendDeleteOrder(r) ==
    /\ Pending(r, "deleteOrder")
    /\ \/ /\ db' = SelectSeq(db, LAMBDA o : o.id # r.orderId)
          /\ Reply(r, "ok", << >>, {})
       \/ /\ UNCHANGED db
          /\ Reply(r, "err", << >>, {})
    /\ UNCHANGED <<customer, orderItems, isSaving, savedSuccessfully, error, allOrders,
                   isLoading, isDeletingOrder, topTapas, nextId, navScheduled, topFrom,
                   directCalls, totalVars>>

\* getAllOrders(): the persisted orders (possibly no data at all when there are
\* none: the caller guards with `orders || []`), or a failure.
BackendGetAllOrders(r) ==
    /\ Pending(r, "getAllOrders")
    /\ \/ Reply(r, "ok", db, {})
       \/ db = << >> /\ Reply(r, "okNull", << >>, {})
       \/ Reply(r, "err", << >>, {})
    /\ UNCHANGED <<customer, orderItems, isSaving, savedSuccessfully, error, allOrders,
                   isLoading, isDeletingOrder, topTapas, db, nextId, navScheduled,
                   topFrom, directCalls, totalVars>>

\* getTopTapas(): the ranking over the persisted orders, or a failure.
BackendGetTopTapas(r) ==
    /\ Pending(r, "getTopTapas")
    /\ \/ Reply(r, "ok", TopTapasOf(db), Ids(db))
       \/ Reply(r, "err", << >>, {})
    /\ UNCHANGED <<customer, orderItems, isSaving, savedSuccessfully, error, allOrders,
                   isLoading, isDeletingOrder, topTapas, db, nextId, navScheduled,
                   topFrom, directCalls, totalVars>>

-----------------------------------------------------------------------------
(* The view *)

\* clearOrder() of ../store/useStore: empties the cart.
clearOrder ==
    /\ customer' = NULL
    /\ orderItems' = << >>

\* `orders || []`
OrEmpty(r) == IF r.resp = "okNull" THEN << >> ELSE r.data

\* The confirm block is rendered (line 171) in the Ready view (line 94).
ConfirmBlockRendered == ~isLoading /\ customer # NULL /\ Len(orderItems) > 0

\* disabled={isSaving} (line 188)
ConfirmDisabledNever == FALSE

ConfirmDisabled == isSaving

\* The confirm button is on screen (lines 180-193) and can be clicked.
ConfirmOffered == ConfirmBlockRendered /\ ~savedSuccessfully /\ ~ConfirmDisabled

\* The error banner (lines 174-178) is part of the confirm block.
ErrorBannerRendered == ConfirmBlockRendered /\ error # NULL

\* disabled={isDeletingOrder === order.id} (line 137)
DeleteDisabled(id) == isDeletingOrder = id

\* The delete button of order id is on screen (lines 125, 135-141) and can be clicked.
DeleteOffered(id) == ~isLoading /\ id \in Ids(allOrders) /\ ~DeleteDisabled(id)

\* handleConfirmOrder without the check of line 75.
HandleConfirmOrderUnchecked ==
    /\ error' = NULL
    /\ isSaving' = TRUE
    /\ Start(NewRun("confirm", Cardinality(Started("confirm")) + 1, "saveOrder", NULL,
                    customer, orderItems, <<"saveOrder">>))
    /\ UNCHANGED <<customer, orderItems, savedSuccessfully, allOrders, isLoading,
                   isDeletingOrder, topTapas, db, nextId, navScheduled, topFrom,
                   totalVars>>

\* handleConfirmOrder up to its first await (lines 70-77); with no customer the
\* throw of line 75 runs catch and finally at once (lines 86-91).
HandleConfirmOrder ==
    LET n == Cardinality(Started("confirm")) + 1
    IN  /\ IF customer = NULL
           THEN /\ error' = SaveErr
                /\ isSaving' = FALSE
                /\ Start(Finish(NewRun("confirm", n, "start", NULL, customer,
                                       orderItems, << >>),
                                <<"noCustomer">>))
           ELSE /\ error' = NULL
                /\ isSaving' = TRUE
                /\ Start(NewRun("confirm", n, "saveOrder", NULL, customer,
                                orderItems, <<"saveOrder">>))
        /\ UNCHANGED <<customer, orderItems, savedSuccessfully, allOrders, isLoading,
                       isDeletingOrder, topTapas, db, nextId, navScheduled, topFrom,
                       totalVars>>

\* onClick={handleConfirmOrder} (line 187)
ClickConfirm ==
    /\ ConfirmOffered
    /\ Cardinality(Started("confirm")) - directCalls < MaxConfirmClicks
    /\ HandleConfirmOrder
    /\ UNCHANGED directCalls

\* handleConfirmOrder called whatever the view renders.
CallConfirm ==
    /\ directCalls < MaxDirectCalls
    /\ directCalls' = directCalls + 1
    /\ HandleConfirmOrder

\* handleDeleteOrder up to its first await (lines 56-59).
HandleDeleteOrder(orderId) ==
    /\ isDeletingOrder' = orderId
    /\ Start(NewRun("delete", Cardinality(Started("delete")) + 1, "deleteOrder",
                    orderId, NULL, << >>, <<"deleteOrder">>))
    /\ UNCHANGED <<customer, orderItems, isSaving, savedSuccessfully, error, allOrders,
                   isLoading, topTapas, db, nextId, navScheduled, topFrom, directCalls,
                   totalVars>>

\* onClick={() => handleDeleteOrder(order.id)} (line 136)
ClickDelete(orderId) ==
    /\ DeleteOffered(orderId)
    /\ Cardinality(Started("delete")) < MaxDeleteClicks
    /\ HandleDeleteOrder(orderId)

\* The same click in the history-only specification.
ClickHistoryDelete(orderId) ==
    /\ DeleteOffered(orderId)
    /\ Cardinality(Started("delete")) < MaxHistoryDeleteClicks
    /\ HandleDeleteOrder(orderId)

\* loadOrders up to its await (lines 21-23), called by a handler's run r.
LoadOrdersStart(r, events) ==
    /\ isLoading' = TRUE
    /\ Replace(r, Await(r, "getAllOrders", events \o <<"getAllOrders">>))

\* handleConfirmOrder after saveOrder resolved, forgetting lines 78-79.
SaveSucceededKeepsCart(r) ==
    /\ LoadOrdersStart(r, <<"saveOk">>)
    /\ UNCHANGED <<customer, orderItems, savedSuccessfully, isSaving, error, allOrders,
                   isDeletingOrder, topTapas, db, nextId, navScheduled, topFrom,
                   directCalls, totalVars>>

\* handleConfirmOrder after saveOrder resolved (lines 78-80).
SaveSucceeded(r) ==
    /\ savedSuccessfully' = TRUE
    /\ clearOrder
    /\ LoadOrdersStart(r, <<"saveOk", "setSavedSuccessfully", "clearOrder">>)
    /\ UNCHANGED <<isSaving, error, allOrders, isDeletingOrder, topTapas, db, nextId,
                   navScheduled, topFrom, directCalls, totalVars>>

\* handleConfirmOrder after saveOrder rejected, clearing the cart as on success.
SaveFailedClearsCart(r) ==
    /\ error' = SaveErr
    /\ isSaving' = FALSE
    /\ clearOrder
    /\ Replace(r, Finish(r, <<"saveErr">>))
    /\ UNCHANGED <<savedSuccessfully, allOrders, isLoading, isDeletingOrder, topTapas,
                   db, nextId, navScheduled, topFrom, directCalls, totalVars>>

\* handleConfirmOrder after saveOrder rejected, with the timer set in finally.
SaveFailedNavigates(r) ==
    /\ error' = SaveErr
    /\ isSaving' = FALSE
    /\ navScheduled' = navScheduled + 1
    /\ Replace(r, Finish(r, <<"saveErr">>))
    /\ UNCHANGED <<customer, orderItems, savedSuccessfully, allOrders, isLoading,
                   isDeletingOrder, topTapas, db, nextId, topFrom, directCalls,
                   totalVars>>

\* handleConfirmOrder after saveOrder rejected (lines 86-91).
SaveFailed(r) ==
    /\ error' = SaveErr
    /\ isSaving' = FALSE
    /\ Replace(r, Finish(r, <<"saveErr">>))
    /\ UNCHANGED <<customer, orderItems, savedSuccessfully, allOrders, isLoading,
                   isDeletingOrder, topTapas, db, nextId, navScheduled, topFrom,
                   directCalls, totalVars>>

\* The reply of saveOrder reaches handleConfirmOrder (line 77).
SaveOrderSettled(r) ==
    /\ Replied(r, "saveOrder")
    /\ IF r.resp = "ok" THEN SaveSucceeded(r) ELSE SaveFailed(r)

\* handleDeleteOrder after deleteOrder resolved (line 60).
DeleteSucceeded(r) ==
    /\ LoadOrdersStart(r, <<"deleteOk">>)
    /\ UNCHANGED <<customer, orderItems, isSaving, savedSuccessfully, error, allOrders,
                   isDeletingOrder, topTapas, db, nextId, navScheduled, topFrom,
                   directCalls, totalVars>>

\* handleDeleteOrder after deleteOrder rejected, without the finally of lines 65-67.
DeleteFailedNoFinally(r) ==
    /\ error' = DeleteErr
    /\ Replace(r, Finish(r, <<"deleteErr">>))
    /\ UNCHANGED <<customer, orderItems, isSaving, savedSuccessfully, allOrders,
                   isLoading, isDeletingOrder, topTapas, db, nextId, navScheduled,
                   topFrom, directCalls, totalVars>>

\* handleDeleteOrder after deleteOrder rejected, reloading all the same.
DeleteFailedReloads(r) ==
    /\ error' = DeleteErr
    /\ LoadOrdersStart(r, <<"deleteErr">>)
    /\ UNCHANGED <<customer, orderItems, isSaving, savedSuccessfully, allOrders,
                   isDeletingOrder, topTapas, db, nextId, navScheduled, topFrom,
                   directCalls, totalVars>>

\* handleDeleteOrder after deleteOrder rejected (lines 62-67).
DeleteFailed(r) ==
    /\ error' = DeleteErr
    /\ isDeletingOrder' = NULL
    /\ Replace(r, Finish(r, <<"deleteErr">>))
    /\ UNCHANGED <<customer, orderItems, isSaving, savedSuccessfully, allOrders,
                   isLoading, topTapas, db, nextId, navScheduled, topFrom, directCalls,
                   totalVars>>

\* The reply of deleteOrder reaches handleDeleteOrder (line 59).
DeleteOrderSettled(r) ==
    /\ Replied(r, "deleteOrder")
    /\ IF r.resp = "ok" THEN DeleteSucceeded(r) ELSE DeleteFailed(r)

\* loadOrders without the finally of lines 28-30: a failure leaves isLoading set.
GetAllOrdersSettledNoFinally(r) ==
    /\ Replied(r, "getAllOrders")
    /\ LET ev == IF r.resp = "err" THEN <<"ordersErr">> ELSE <<"ordersOk">>
       IN  /\ IF r.resp = "err"
              THEN error' = LoadErr /\ UNCHANGED <<allOrders, isLoading>>
              ELSE allOrders' = OrEmpty(r) /\ isLoading' = FALSE /\ UNCHANGED error
           /\ Replace(r, IF r.kind = "mountOrders"
                         THEN Finish(r, ev)
                         ELSE Await(r, "getTopTapas", ev \o <<"getTopTapas">>))
    /\ UNCHANGED <<customer, orderItems, isSaving, savedSuccessfully, isDeletingOrder,
                   topTapas, db, nextId, navScheduled, topFrom, directCalls, totalVars>>

\* loadOrders that resets the error when the load succeeds.
GetAllOrdersSettledClearsError(r) ==
    /\ Replied(r, "getAllOrders")
    /\ LET ev == IF r.resp = "err" THEN <<"ordersErr">> ELSE <<"ordersOk">>
       IN  /\ IF r.resp = "err"
              THEN error' = LoadErr /\ UNCHANGED allOrders
              ELSE allOrders' = OrEmpty(r) /\ error' = NULL
           /\ isLoading' = FALSE
           /\ Replace(r, IF r.kind = "mountOrders"
                         THEN Finish(r, ev)
                         ELSE Await(r, "getTopTapas", ev \o <<"getTopTapas">>))
    /\ UNCHANGED <<customer, orderItems, isSaving, savedSuccessfully, isDeletingOrder,
                   topTapas, db, nextId, navScheduled, topFrom, directCalls, totalVars>>

\* loadOrders that empties the history when the load fails.
GetAllOrdersSettledEmptiesOnError(r) ==
    /\ Replied(r, "getAllOrders")
    /\ LET ev == IF r.resp = "err" THEN <<"ordersErr">> ELSE <<"ordersOk">>
       IN  /\ IF r.resp = "err"
              THEN error' = LoadErr /\ allOrders' = << >>
              ELSE allOrders' = OrEmpty(r) /\ UNCHANGED error
           /\ isLoading' = FALSE
           /\ Replace(r, IF r.kind = "mountOrders"
                         THEN Finish(r, ev)
                         ELSE Await(r, "getTopTapas", ev \o <<"getTopTapas">>))
    /\ UNCHANGED <<customer, orderItems, isSaving, savedSuccessfully, isDeletingOrder,
                   topTapas, db, nextId, navScheduled, topFrom, directCalls, totalVars>>

\* loadOrders without its catch: the failure reaches the handler's catch.
GetAllOrdersSettledRethrows(r) ==
    /\ Replied(r, "getAllOrders")
    /\ LET ev == IF r.resp = "err" THEN <<"ordersErr">> ELSE <<"ordersOk">>
           thrown == r.resp = "err" /\ r.kind # "mountOrders"
       IN  /\ IF r.resp = "err"
              THEN /\ error' = IF r.kind = "confirm" THEN SaveErr
                               ELSE IF r.kind = "delete" THEN DeleteErr ELSE LoadErr
                   /\ UNCHANGED allOrders
              ELSE allOrders' = OrEmpty(r) /\ UNCHANGED error
           /\ isLoading' = FALSE
           /\ isSaving' = IF thrown /\ r.kind = "confirm" THEN FALSE ELSE isSaving
           /\ isDeletingOrder' = IF thrown /\ r.kind = "delete" THEN NULL
                                 ELSE isDeletingOrder
           /\ Replace(r, IF r.kind = "mountOrders" \/ thrown
                         THEN Finish(r, ev)
                         ELSE Await(r, "getTopTapas", ev \o <<"getTopTapas">>))
    /\ UNCHANGED <<customer, orderItems, savedSuccessfully, topTapas, db, nextId,
                   navScheduled, topFrom, directCalls, totalVars>>

\* The reply of getAllOrders reaches loadOrders (lines 23-30); loadOrders returns
\* and the handler that awaited it goes on to loadTopTapas (lines 61, 81, 35).
GetAllOrdersSettled(r) ==
    /\ Replied(r, "getAllOrders")
    /\ LET ev == IF r.resp = "err" THEN <<"ordersErr">> ELSE <<"ordersOk">>
       IN  /\ IF r.resp = "err"
              THEN error' = LoadErr /\ UNCHANGED allOrders
              ELSE allOrders' = OrEmpty(r) /\ UNCHANGED error
           /\ isLoading' = FALSE
           /\ Replace(r, IF r.kind = "mountOrders"
                         THEN Finish(r, ev)
                         ELSE Await(r, "getTopTapas", ev \o <<"getTopTapas">>))
    /\ UNCHANGED <<customer, orderItems, isSaving, savedSuccessfully, isDeletingOrder,
                   topTapas, db, nextId, navScheduled, topFrom, directCalls, totalVars>>

\* loadTopTapas settles but the handler's finally block is left out.
GetTopTapasSettledNoFinally(r) ==
    /\ Replied(r, "getTopTapas")
    /\ LET ev == IF r.resp = "err" THEN <<"topErr">> ELSE <<"topOk">>
       IN  /\ IF r.resp = "err"
              THEN UNCHANGED <<topTapas, topFrom>>
              ELSE topTapas' = r.data /\ topFrom' = r.from
           /\ navScheduled' = IF r.kind = "confirm" THEN navScheduled + 1
                              ELSE navScheduled
           /\ Replace(r, Finish(r, IF r.kind = "confirm" THEN ev \o <<"setTimeout">>
                                   ELSE ev))
    /\ UNCHANGED <<customer, orderItems, isSaving, savedSuccessfully, error, allOrders,
                   isLoading, isDeletingOrder, db, nextId, directCalls, totalVars>>

\* loadTopTapas without its catch: the failure reaches the handler's catch.
GetTopTapasSettledRethrows(r) ==
    /\ Replied(r, "getTopTapas")
    /\ LET ev == IF r.resp = "err" THEN <<"topErr">> ELSE <<"topOk">>
           thrown == r.resp = "err" /\ r.kind # "mountTop"
       IN  /\ IF r.resp = "err"
              THEN UNCHANGED <<topTapas, topFrom>>
              ELSE topTapas' = r.data /\ topFrom' = r.from
           /\ error' = IF ~thrown THEN error
                       ELSE IF r.kind = "confirm" THEN SaveErr ELSE DeleteErr
           /\ isDeletingOrder' = IF r.kind = "delete" THEN NULL ELSE isDeletingOrder
           /\ isSaving' = IF r.kind = "confirm" THEN FALSE ELSE isSaving
           /\ navScheduled' = IF r.kind = "confirm" /\ ~thrown THEN navScheduled + 1
                              ELSE navScheduled
           /\ Replace(r, Finish(r, IF r.kind = "confirm" /\ ~thrown
                                   THEN ev \o <<"setTimeout">> ELSE ev))
    /\ UNCHANGED <<customer, orderItems, savedSuccessfully, allOrders, isLoading,
                   db, nextId, directCalls, totalVars>>

\* The reply of getTopTapas reaches loadTopTapas (lines 35-39); loadTopTapas
\* returns and the handler that awaited it ends (lines 65-67, 83-85 and 89-91).
GetTopTapasSettled(r) ==
    /\ Replied(r, "getTopTapas")
    /\ LET ev == IF r.resp = "err" THEN <<"topErr">> ELSE <<"topOk">>
       IN  /\ IF r.resp = "err"
              THEN UNCHANGED <<topTapas, topFrom>>
              ELSE topTapas' = r.data /\ topFrom' = r.from
           /\ isDeletingOrder' = IF r.kind = "delete" THEN NULL ELSE isDeletingOrder
           /\ isSaving' = IF r.kind = "confirm" THEN FALSE ELSE isSaving
           /\ navScheduled' = IF r.kind = "confirm" THEN navScheduled + 1
                              ELSE navScheduled
           /\ Replace(r, Finish(r, IF r.kind = "confirm" THEN ev \o <<"setTimeout">>
                                   ELSE ev))
    /\ UNCHANGED <<customer, orderItems, savedSuccessfully, error, allOrders, isLoading,
                   db, nextId, directCalls, totalVars>>

-----------------------------------------------------------------------------
(* Specifications *)

\* The mounted view driven through its rendered controls.
Next ==
    \/ ClickConfirm
    \/ \E orderId \in Ids(allOrders) : ClickDelete(orderId)
    \/ \E r \in runs : BackendSaveOrder(r)
    \/ \E r \in runs : BackendDeleteOrder(r)
    \/ \E r \in runs : BackendGetAllOrders(r)
    \/ \E r \in runs : BackendGetTopTapas(r)
    \/ \E r \in runs : SaveOrderSettled(r)
    \/ \E r \in runs : DeleteOrderSettled(r)
    \/ \E r \in runs : GetAllOrdersSettled(r)
    \/ \E r \in runs : GetTopTapasSettled(r)

Spec == Init /\ [][Next]_vars

\* The confirm handler alone, clicked or called whatever the view renders.
NextH ==
    \/ ClickConfirm
    \/ CallConfirm
    \/ \E r \in runs : BackendSaveOrder(r)
    \/ \E r \in runs : BackendGetAllOrders(r)
    \/ \E r \in runs : BackendGetTopTapas(r)
    \/ \E r \in runs : SaveOrderSettled(r)
    \/ \E r \in runs : GetAllOrdersSettled(r)
    \/ \E r \in runs : GetTopTapasSettled(r)

SpecH == Init /\ [][NextH]_vars

\* Every backend call returns and every settled promise runs its continuation.
Fairness ==
    /\ WF_vars(\E r \in runs : BackendSaveOrder(r))
    /\ WF_vars(\E r \in runs : BackendDeleteOrder(r))
    /\ WF_vars(\E r \in runs : BackendGetAllOrders(r))
    /\ WF_vars(\E r \in runs : BackendGetTopTapas(r))
    /\ WF_vars(\E r \in runs : SaveOrderSettled(r))
    /\ WF_vars(\E r \in runs : DeleteOrderSettled(r))
    /\ WF_vars(\E r \in runs : GetAllOrdersSettled(r))
    /\ WF_vars(\E r \in runs : GetTopTapasSettled(r))

FairSpec == Init /\ [][Next]_vars /\ Fairness

\* The page opened with no order in progress and two orders in the history: only
\* the delete controls are on screen.
InitD ==
    /\ customer = NULL
    /\ orderItems = << >>
    /\ isSaving = FALSE
    /\ savedSuccessfully = FALSE
    /\ error = NULL
    /\ allOrders = << >>
    /\ isLoading = TRUE
    /\ isDeletingOrder = NULL
    /\ topTapas = << >>
    /\ db = TwoOrders
    /\ nextId = Len(TwoOrders) + 1
    /\ runs = { NewRun("mountOrders", 1, "getAllOrders", NULL, NULL, << >>, << >>),
                NewRun("mountTop", 1, "getTopTapas", NULL, NULL, << >>, << >>) }
    /\ navScheduled = 0
    /\ topFrom = {}
    /\ directCalls = 0
    /\ items = << >>
    /\ computed = TRUE
    /\ total = 0

NextD ==
    \/ \E orderId \in Ids(allOrders) : ClickHistoryDelete(orderId)
    \/ \E r \in runs : BackendDeleteOrder(r)
    \/ \E r \in runs : BackendGetAllOrders(r)
    \/ \E r \in runs : BackendGetTopTapas(r)
    \/ \E r \in runs : DeleteOrderSettled(r)
    \/ \E r \in runs : GetAllOrdersSettled(r)
    \/ \E r \in runs : GetTopTapasSettled(r)

SpecD == InitD /\ [][NextD]_vars

\* calculateTotal applied to every bounded argument.
NextTotal == CallCalculateTotal /\ UNCHANGED viewVars

SpecTotal == InitTotal /\ [][NextTotal]_vars

-----------------------------------------------------------------------------
(* Properties *)

\* The run r as it is after the step.
After(r) == CHOOSE q \in runs' : q.kind = r.kind /\ q.n = r.n

\* The runs a step starts.
StartedNow(kind) == { q \in runs' : q.kind = kind /\ q \notin runs
                                    /\ \A r \in runs : ~(r.kind = q.kind /\ r.n = q.n) }

AllDone == \A r \in runs : r.pc = "done"

\* The calls with a request outstanding that steps of handlers issued.
HandlerCalls(call) == { r \in Outstanding(call) : r.kind \in {"confirm", "delete"} }

RECURSIVE SumOver(_, _)
SumOver(its, S) ==
    IF S = {} THEN 0
    ELSE LET k == CHOOSE k \in S : TRUE
         IN  its[k].price * its[k].quantity + SumOver(its, S \ {k})

\* C1: calculateTotal(items) is the sum of price * quantity over exactly the items
\* whose category is not "tapas", and 0 for the empty sequence.
C1_TotalIsChargeableSum ==
    computed =>
        /\ total = SumOver(items, { k \in DOMAIN items : items[k].category # "tapas" })
        /\ (items = << >> => total = 0)

C1_Witness ==
    /\ computed
    /\ total > 0
    /\ \E k \in DOMAIN items : items[k].category = "tapas" /\ items[k].price > 0
    /\ \E k \in DOMAIN items : items[k].category # "tapas" /\ items[k].price > 0

\* What a run of handleConfirmOrder started with no customer does, apart from
\* savedSuccessfully: it ends at once, issues no saveOrder and no reload, sets the
\* save error, leaves isSaving false, the cart as it is and schedules no navigation.
NoCustomerRunEnds ==
    /\ \A q \in StartedNow("confirm") : q.pc = "done" /\ q.outcome = "noCustomer"
    /\ Outstanding("saveOrder")' = Outstanding("saveOrder")
    /\ Outstanding("getAllOrders")' = Outstanding("getAllOrders")
    /\ Outstanding("getTopTapas")' = Outstanding("getTopTapas")
    /\ error' = SaveErr
    /\ isSaving' = FALSE
    /\ customer' = customer /\ orderItems' = orderItems
    /\ navScheduled' = navScheduled
    /\ db' = db

\* C2 as stated: a run of handleConfirmOrder started with no customer never calls
\* saveOrder and ends with the save error set, isSaving false, savedSuccessfully
\* false, the cart not cleared, no reload and no navigation.
C2_NoCustomerEndsNotSaved ==
    [][(customer = NULL /\ StartedNow("confirm") # {})
         => (NoCustomerRunEnds /\ savedSuccessfully' = FALSE)]_vars

\* C2 amended: the same, but savedSuccessfully is left as it was (it is true when an
\* earlier run of the view saved an order).
C2_NoCustomerShortCircuits ==
    [][(customer = NULL /\ StartedNow("confirm") # {})
         => (NoCustomerRunEnds /\ savedSuccessfully' = savedSuccessfully)]_vars

C2_Witness ==
    /\ \E r \in runs : r.kind = "confirm" /\ r.outcome = "noCustomer"
    /\ error = SaveErr
    /\ ~isSaving

\* A step in which run r of handleConfirmOrder receives the failure of saveOrder.
SaveFails(r) == Replied(r, "saveOrder") /\ r.resp = "err" /\ After(r) # r

\* What a failed save leaves behind, apart from the confirm control.
FailedSaveKeepsCart(r) ==
    /\ After(r).pc = "done"
    /\ customer' = r.customer /\ orderItems' = r.items
    /\ customer' = customer /\ orderItems' = orderItems
    /\ savedSuccessfully' = FALSE
    /\ error' = SaveErr
    /\ isSaving' = FALSE

\* C3 as stated: when saveOrder fails the cart is the same after the handler as
\* before it, savedSuccessfully stays false, the error is set, and once the handler
\* completes the confirm control is enabled again.
C3_FailedSaveReoffersConfirm ==
    [][\A r \in runs : SaveFails(r) => (FailedSaveKeepsCart(r) /\ ConfirmOffered')]_vars

\* C3 amended: the same, but the confirm control is on screen again only once the
\* view is not in Loading (a delete started meanwhile may be reloading the history).
C3_FailedSaveKeepsCart ==
    [][\A r \in runs : SaveFails(r) =>
           (FailedSaveKeepsCart(r) /\ (~isLoading' => ConfirmOffered'))]_vars

C3_Witness ==
    /\ \E r \in runs : r.kind = "confirm" /\ r.outcome = "saveFailed"
    /\ \E r \in runs : r.kind = "confirm" /\ r.n = 2 /\ r.pc = "saveOrder"
                       /\ r.customer = "c1" /\ r.items = CartItems

\* C4: with no handleConfirmOrder run in flight isSaving is false, with no
\* handleDeleteOrder run in flight isDeletingOrder is null, with no loadOrders run
\* in flight isLoading is false.
C4_BusyFlagsClear ==
    /\ InFlight("confirm") = {} => isSaving = FALSE
    /\ InFlight("delete") = {} => isDeletingOrder = NULL
    /\ Outstanding("getAllOrders") = {} => isLoading = FALSE

C4_Witness ==
    /\ AllDone
    /\ \E r \in runs : r.kind = "confirm" /\ r.outcome = "saveFailed"
    /\ \E r \in runs : r.kind = "delete" /\ r.outcome = "deleteFailed"
    /\ \E r \in runs : r.kind = "mountOrders" /\ r.outcome = "ok"

\* C5: once every handler has completed, an order whose deleteOrder succeeded and
\* whose handler's reloads succeeded is not in the history the view shows.
C5_DeletedOrderGone ==
    \A r \in runs :
        (AllDone /\ r.kind = "delete" /\ r.outcome = "ok")
            => r.orderId \notin Ids(allOrders)

\* The same for the top-items list: it was computed from orders that do not
\* include the deleted one.
DeletedOrderNotInTopItems ==
    \A r \in runs :
        (AllDone /\ r.kind = "delete" /\ r.outcome = "ok")
            => r.orderId \notin topFrom

\* The runs of handleConfirmOrder whose saveOrder the backend has served with success.
SavedRuns ==
    { r \in runs : /\ r.kind = "confirm"
                   /\ \/ (r.pc = "saveOrder" /\ r.resp = "ok")
                      \/ Has(r.trace, "saveOk")
                      \/ r.outcome \in {"ok", "ordersFailed", "topFailed",
                                        "reloadsFailed"} }

\* C6: saveOrder succeeds at most once (one order persisted from the cart), and once
\* the handler has received that success the cart is cleared and the confirm control
\* is not offered again.
C6_AtMostOneOrderFromCart ==
    /\ Cardinality(SavedRuns) <= 1
    /\ Len(db) <= Len(InitialOrders) + 1
    /\ \A r \in SavedRuns :
          r.pc # "saveOrder" =>
              /\ customer = NULL /\ orderItems = << >>
              /\ savedSuccessfully
              /\ ~ConfirmOffered

C6_Witness ==
    /\ \E r \in runs : r.kind = "confirm" /\ r.outcome = "saveFailed"
    /\ \E r \in SavedRuns : r.n = 2 /\ r.pc = "done"
    /\ customer = NULL

\* C7 as stated: for each of saveOrder, deleteOrder, getAllOrders and getTopTapas at
\* most one call issued by the view's handlers is outstanding.
C7_OneCallPerKind ==
    \A call \in {"saveOrder", "deleteOrder", "getAllOrders", "getTopTapas"} :
        Cardinality(HandlerCalls(call)) <= 1

\* C7 amended: at most one saveOrder call is outstanding (the other kinds are not so
\* limited).
C7_OneSaveOrder == Cardinality(Outstanding("saveOrder")) <= 1

C7_Witness ==
    /\ Cardinality(Outstanding("saveOrder")) = 1
    /\ Cardinality(Outstanding("deleteOrder")) = 1
    /\ isSaving

\* The trace of a run of handleConfirmOrder that is about to schedule the navigation.
NavTraces ==
    { <<"saveOrder", "saveOk", "setSavedSuccessfully", "clearOrder", "getAllOrders",
        o, "getTopTapas">> : o \in {"ordersOk", "ordersErr"} }

\* C8: the navigation is scheduled at most once, only by a run of handleConfirmOrder
\* whose saveOrder succeeded, after savedSuccessfully was set, the cart was cleared,
\* the history reload settled and the top-items reload settled, in this order.
C8_NavigationOnlyAfterSave ==
    /\ [](navScheduled <= 1)
    /\ [][navScheduled' # navScheduled =>
            /\ navScheduled' = navScheduled + 1
            /\ \E r \in runs :
                  /\ r.kind = "confirm"
                  /\ Replied(r, "getTopTapas")
                  /\ r.trace \in NavTraces
                  /\ After(r).pc = "done"
                  /\ \A q \in runs \ {r} : After(q) = q
            /\ savedSuccessfully /\ customer = NULL /\ orderItems = << >>]_vars

C8_Witness ==
    /\ navScheduled = 1
    /\ \E r \in runs : r.kind = "delete" /\ r.pc = "done"

\* C9: the view is in Loading while the mount's getAllOrders is outstanding and
\* leaves it when that call settles, whatever getTopTapas does: on success allOrders
\* is the returned list and error is unset, on failure the load error is set and
\* allOrders is still empty.
C9_MountLoad ==
    /\ [](\A r \in InFlight("mountOrders") :
             isLoading /\ allOrders = << >> /\ error = NULL)
    /\ [][\A r \in InFlight("mountOrders") :
             After(r).pc # r.pc =>
                 /\ Replied(r, "getAllOrders") /\ After(r).pc = "done"
                 /\ isLoading' = FALSE
                 /\ r.resp = "err" => (error' = LoadErr /\ allOrders' = << >>)
                 /\ r.resp = "ok" => (error' = NULL /\ allOrders' = r.data)
                 /\ r.resp = "okNull" => (error' = NULL /\ allOrders' = << >>)]_vars

C9_Witness ==
    /\ \E r \in runs : r.kind = "mountOrders" /\ r.outcome = "ok"
    /\ \E r \in runs : r.kind = "mountTop" /\ Pending(r, "getTopTapas")
    /\ ~isLoading
    /\ allOrders = InitialOrders

\* C10: when deleteOrder fails the run ends without calling getAllOrders or
\* getTopTapas, sets the delete error, leaves allOrders and topTapas unchanged and
\* isDeletingOrder null.
C10_FailedDeleteNoReload ==
    [][\A r \in runs :
          (Replied(r, "deleteOrder") /\ r.resp = "err" /\ After(r) # r) =>
              /\ After(r).pc = "done"
              /\ Outstanding("getAllOrders")' = Outstanding("getAllOrders")
              /\ Outstanding("getTopTapas")' = Outstanding("getTopTapas")
              /\ error' = DeleteErr
              /\ allOrders' = allOrders /\ topTapas' = topTapas
              /\ isLoading' = isLoading
              /\ isDeletingOrder' = NULL]_vars

C10_Witness ==
    /\ \E r \in runs : r.kind = "delete" /\ r.outcome = "deleteFailed"
    /\ error = DeleteErr
    /\ isDeletingOrder = NULL
    /\ allOrders = InitialOrders

\* C11: in the Ready view the error message is on screen whenever the error is set,
\* also with no customer selected or an empty cart.
C11_ErrorVisible == (~isLoading /\ error # NULL) => ErrorBannerRendered

\* C12 as stated: once the view is Ready no step puts it back into Loading.
C12_NeverBackToLoading == [][~isLoading => ~isLoading']_vars

\* A step in which run r receives the success of its deleteOrder or saveOrder and
\* goes on to loadOrders.
ReloadStarts(r) ==
    /\ r.kind \in {"delete", "confirm"}
    /\ (Replied(r, "deleteOrder") \/ Replied(r, "saveOrder"))
    /\ r.resp = "ok"
    /\ After(r).pc = "getAllOrders"

\* C12 amended: the Ready view goes back into Loading exactly when a handler starts
\* its history reload after a successful delete or save; no click, no failed delete
\* or save and no top-items reload does it.
C12_LoadingOnlyOnReload ==
    [][(~isLoading /\ isLoading') => \E r \in runs : ReloadStarts(r)]_vars

C12_Witness ==
    /\ isLoading
    /\ \E r \in runs : r.kind = "mountOrders" /\ r.pc = "done"
    /\ \E r \in runs : r.kind = "delete" /\ r.pc = "getAllOrders"

\* The delete runs whose deleteOrder request is outstanding (sent, reply not yet
\* delivered to the handler).
DeleteOutstanding(id) ==
    {r \in InFlight("delete") : r.orderId = id /\ r.pc = "deleteOrder"}

\* C13: while a handleDeleteOrder(id) run has not completed isDeletingOrder = id, and
\* no two deleteOrder(id) requests for the same order are outstanding together.
C13_DeleteStaysDisabled ==
    /\ \A r \in InFlight("delete") : isDeletingOrder = r.orderId
    /\ \A id \in Ids(TwoOrders) : Cardinality(DeleteOutstanding(id)) <= 1

\* The second half of C13 alone: never two outstanding deleteOrder(id) of one order.
NoDoubleDelete == \A id \in Ids(TwoOrders) : Cardinality(DeleteOutstanding(id)) <= 1

\* C14 as stated: isSaving and savedSuccessfully are never both true.
C14_NotSavingAndSaved == ~(isSaving /\ savedSuccessfully)

\* C14 amended: isSaving and savedSuccessfully are both true only while a confirm
\* run whose saveOrder succeeded is still in its reloads.
C14_BothOnlyDuringReloads ==
    (isSaving /\ savedSuccessfully) =>
        \E r \in InFlight("confirm") :
            /\ r.pc \in {"getAllOrders", "getTopTapas"}
            /\ Has(r.trace, "setSavedSuccessfully")

C14_Witness ==
    /\ isSaving
    /\ savedSuccessfully
    /\ \E r \in InFlight("confirm") : r.pc = "getTopTapas"

\* The step in which loadTopTapas of run r receives a failure.
TopFails(r) == Replied(r, "getTopTapas") /\ r.resp = "err" /\ After(r).pc = "done"

\* C15: when getTopTapas fails, loadTopTapas leaves error, topTapas, allOrders,
\* isLoading and savedSuccessfully as they are, and the handler that called it ends
\* as after a successful reload: the mount changes nothing more, a confirm resets
\* isSaving and schedules the navigation, a delete resets isDeletingOrder and sets
\* no error.
C15_TopFailureIsSilent ==
    [][\A r \in runs : TopFails(r) =>
          /\ UNCHANGED <<error, topTapas, allOrders, isLoading, savedSuccessfully>>
          /\ (r.kind = "mountTop" =>
                UNCHANGED <<isSaving, isDeletingOrder, navScheduled>>)
          /\ (r.kind = "confirm" =>
                /\ navScheduled' = navScheduled + 1
                /\ isSaving' = FALSE
                /\ UNCHANGED isDeletingOrder)
          /\ (r.kind = "delete" =>
                /\ isDeletingOrder' = NULL
                /\ UNCHANGED <<isSaving, navScheduled>>)]_vars

C15_Witness ==
    /\ \E r \in runs : r.kind = "confirm" /\ r.pc = "done" /\ r.outcome = "topFailed"
    /\ \E r \in runs : r.kind = "delete" /\ r.pc = "done" /\ r.outcome = "topFailed"
    /\ navScheduled = 1
    /\ error = NULL

\* The confirm runs whose handler has received the success of saveOrder.
SaveDelivered == { r \in SavedRuns : r.pc # "saveOrder" }

\* C16: a successful saveOrder leads to the navigation being scheduled when every
\* call returns, whatever the reloads answer; after the success savedSuccessfully
\* stays true, the cart stays cleared and the save error is not set, and the run
\* ends with the navigation scheduled.
C16_SaveLeadsToNavigation ==
    /\ (SavedRuns # {}) ~> (navScheduled = 1)
    /\ [](\A r \in SaveDelivered :
             /\ savedSuccessfully
             /\ customer = NULL /\ orderItems = << >>
             /\ error # SaveErr
             /\ (r.pc = "done" => navScheduled = 1))

C16_Witness ==
    /\ \E r \in runs : r.kind = "confirm" /\ r.pc = "done" /\ r.outcome = "reloadsFailed"
    /\ navScheduled = 1
    /\ savedSuccessfully
    /\ error = LoadErr

\* C17: a set error becomes null only in a step that starts handleConfirmOrder; no
\* load, delete or save step, successful or failed, resets it.
C17_ErrorClearedOnlyByConfirm ==
    [][(error # NULL /\ error' = NULL) => StartedNow("confirm") # {}]_vars

C17_Witness ==
    /\ error = NULL
    /\ \E r \in runs : r.kind = "confirm" /\ r.n = 1 /\ r.outcome = "saveFailed"
    /\ \E r \in runs : r.kind = "delete" /\ r.pc = "done" /\ r.outcome = "ok"
    /\ \E r \in runs : r.kind = "confirm" /\ r.n = 2 /\ Pending(r, "saveOrder")

\* The step in which loadOrders of run r receives a failure.
OrdersFail(r) == Replied(r, "getAllOrders") /\ r.resp = "err" /\ After(r).pc # r.pc

\* C18: when getAllOrders fails inside loadOrders, allOrders keeps the list shown
\* before, the load error is set and isLoading is false.
C18_FailedReloadKeepsHistory ==
    [][\A r \in runs : OrdersFail(r) =>
          /\ allOrders' = allOrders
          /\ error' = LoadErr
          /\ isLoading' = FALSE]_vars

C18_Witness ==
    /\ \E r \in runs :
          /\ r.kind = "delete" /\ r.pc = "done" /\ r.outcome = "ordersFailed"
          /\ r.orderId \in Ids(allOrders)
          /\ r.orderId \notin Ids(db)
    /\ error = LoadErr
    /\ ~isLoading

=============================================================================
